---- MODULE Spec2Model ----
(***************************************************************************)
(* Model of the tool dispatcher of the TwitterAPI.io MCP server            *)
(* (src/src/index.ts, class TwitterAPIMCPServer).                          *)
(*                                                                         *)
(* A step of the model is one synchronous run of JavaScript code: either   *)
(* the part of the CallTool handler that runs from the arrival of a        *)
(* request up to the first await (the upstream HTTP call) or a throw, or   *)
(* the continuation that runs when the upstream call settles, or the       *)
(* ListTools handler.  The variables event / wire / result hold the input  *)
(* and the outputs of the latest step.                                     *)
(***************************************************************************)
EXTENDS Integers, Sequences, FiniteSets, Bags, TLC

VARIABLES
    loginCookie,    \* this.loginCookie                      (index.ts:74)
    apiKey,         \* this.apiKey                           (index.ts:73,78)
    pending,        \* bag of the tool names of the invocations suspended at
                    \* `await this.apiClient.get/post`
    upstreamCalls,  \* number of HTTP requests handed to apiClient so far
    granted,        \* cookie of the latest settled login response that carried one
    event,          \* what the latest step received
    wire,           \* the HTTP request the latest step issued, or NoRequest
    result          \* what the latest step answered to the caller, or NoResult

vars == <<loginCookie, apiKey, pending, upstreamCalls, granted, event, wire, result>>

----------------------------------------------------------------------------
(* Bounds *)

MaxInFlight == 2    \* invocations that may be suspended at the same time
MaxCalls == 3       \* upstream requests issued in one behaviour

----------------------------------------------------------------------------
(* JavaScript values *)

Undefined == "<undefined>"      \* a property that is not there
Null == "<null>"                \* loginCookie's initial value
Absent == "<absent>"            \* a header that was not set

\* an optional number is << >> (undefined) or <<n>>
NoCount == << >>

Truthy(v) == v \notin {Undefined, Null, ""}

MathMin(a, b) == IF a < b THEN a ELSE b

\* a parameter default `count: number = d` applies to undefined only
DefaultParam(v, d) == IF v = NoCount THEN d ELSE v[1]

----------------------------------------------------------------------------
(* The catalog of the ListTools handler *)

Tool(name, required, optional, maximum, dflt) ==
    [name |-> name, required |-> required, optional |-> optional,
     minimum |-> IF "count" \in optional THEN 1 ELSE 0,
     maximum |-> maximum, dflt |-> dflt]

Catalog ==
    << Tool("get_user_by_username", {"username"}, {}, 0, 0),
       Tool("get_user_by_id", {"user_id"}, {}, 0, 0),
       Tool("get_user_tweets", {"username"}, {"count"}, 100, 10),
       Tool("search_tweets", {"query"}, {"count", "result_type"}, 100, 10),
       Tool("get_tweet_by_id", {"tweet_id"}, {}, 0, 0),
       Tool("get_tweet_replies", {"tweet_id"}, {"count"}, 100, 10),
       Tool("get_user_followers", {"username"}, {"count"}, 100, 20),
       Tool("get_user_following", {"username"}, {"count"}, 100, 20),
       Tool("search_users", {"query"}, {"count"}, 50, 10),
       Tool("login_user", {"username", "password"}, {}, 0, 0),
       Tool("create_tweet", {"text"}, {"reply_to"}, 0, 0) >>

ToolNames == {Catalog[i].name : i \in DOMAIN Catalog}

Descriptor(name) == CHOOSE d \in {Catalog[i] : i \in DOMAIN Catalog} : d.name = name

----------------------------------------------------------------------------
(* Building the upstream request *)

NoRequest == [method |-> "none"]

HeadersWithoutCookie(key, cookie) ==
    [xApiKey |-> IF Truthy(key) THEN key ELSE Absent, Cookie |-> Absent]

\* `headers: {}` plus the two conditional assignments
Headers(key, cookie) ==
    [xApiKey |-> IF Truthy(key) THEN key ELSE Absent,
     Cookie |-> IF Truthy(cookie) THEN cookie ELSE Absent]

makeRequest(endpoint, params) ==
    [method |-> "GET", path |-> endpoint, params |-> params,
     headers |-> Headers(apiKey, loginCookie)]

makePostRequest(endpoint, data) ==
    [method |-> "POST", path |-> endpoint, data |-> data,
     headers |-> Headers(apiKey, loginCookie)]

----------------------------------------------------------------------------
(* Errors and what a handler does before it suspends *)

McpError(code, message) == [cls |-> "McpError", code |-> code, message |-> message]
Error(message) == [cls |-> "Error", code |-> "none", message |-> message]
NoError == [cls |-> "none"]

Await(req) == [tag |-> "await", req |-> req, err |-> NoError]
Throw(err) == [tag |-> "throw", req |-> NoRequest, err |-> err]

getUserByUsername(username) ==
    Await(makeRequest("/user/info", [userName |-> username]))

getUserById(userId) ==
    Await(makeRequest("/user/info", [user_id |-> userId]))

getUserTweets(username, count) ==
    Await(makeRequest("/user/last_tweets",
        [userName |-> username, count |-> MathMin(DefaultParam(count, 10), 100)]))

searchTweets(query, count, resultType) ==
    Await(makeRequest("/tweet/advanced_search",
        [query |-> query, count |-> MathMin(DefaultParam(count, 10), 100),
         result_type |-> IF resultType = Undefined THEN "recent" ELSE resultType]))

getTweetById(tweetId) ==
    Await(makeRequest("/tweets", [tweet_id |-> tweetId]))

getTweetReplies(tweetId, count) ==
    Await(makeRequest("/tweet/replies",
        [id |-> tweetId, count |-> MathMin(DefaultParam(count, 10), 100)]))

getUserFollowers(username, count) ==
    Await(makeRequest("/user/followers",
        [userName |-> username, count |-> MathMin(DefaultParam(count, 20), 100)]))

getUserFollowingSingular(username, count) ==
    Await(makeRequest("/user/following",
        [userName |-> username, count |-> MathMin(DefaultParam(count, 20), 100)]))

getUserFollowing(username, count) ==
    Await(makeRequest("/user/followings",
        [userName |-> username, count |-> MathMin(DefaultParam(count, 20), 100)]))

searchUsersCap100(query, count) ==
    Await(makeRequest("/user/search",
        [query |-> query, count |-> MathMin(DefaultParam(count, 10), 100)]))

searchUsers(query, count) ==
    Await(makeRequest("/user/search",
        [query |-> query, count |-> MathMin(DefaultParam(count, 10), 50)]))

loginUser(username, password) ==
    Await(makePostRequest("/user_login_v2", [userName |-> username, password |-> password]))

createTweetUnguarded(text, replyTo) ==
    Await(makePostRequest("/create_tweet_v2",
        IF Truthy(replyTo) THEN [text |-> text, reply_to |-> replyTo]
                           ELSE [text |-> text]))

createTweet(text, replyTo) ==
    IF ~Truthy(loginCookie)
    THEN Throw(Error(<<"Must login first before creating tweets">>))
    ELSE Await(makePostRequest("/create_tweet_v2",
            IF Truthy(replyTo) THEN [text |-> text, reply_to |-> replyTo]
                               ELSE [text |-> text]))

\* the catch clause of the CallTool handler
HandlerCatch(err) ==
    IF err.cls = "McpError"
    THEN err
    ELSE McpError("InternalError", <<"TwitterAPI.io error: ">> \o err.message)

NoArgs == [missing |-> TRUE]

UnknownToolAnonymous(name) == Throw(McpError("MethodNotFound", <<"Unknown tool">>))

\* the default case of the switch
UnknownTool(name) == Throw(McpError("MethodNotFound", <<"Unknown tool: ", name>>))

SwitchWithoutFollowing(name, args) ==
    CASE name = "get_user_by_username" -> getUserByUsername(args.username)
      [] name = "get_user_by_id" -> getUserById(args.user_id)
      [] name = "get_user_tweets" -> getUserTweets(args.username, args.count)
      [] name = "search_tweets" -> searchTweets(args.query, args.count, args.result_type)
      [] name = "get_tweet_by_id" -> getTweetById(args.tweet_id)
      [] name = "get_tweet_replies" -> getTweetReplies(args.tweet_id, args.count)
      [] name = "get_user_followers" -> getUserFollowers(args.username, args.count)
      [] name = "search_users" -> searchUsers(args.query, args.count)
      [] name = "login_user" -> loginUser(args.username, args.password)
      [] name = "create_tweet" -> createTweet(args.text, args.reply_to)
      [] OTHER -> UnknownTool(name)

\* the switch of the CallTool handler, up to the first await or throw
Switch(name, args) ==
    CASE name = "get_user_by_username" -> getUserByUsername(args.username)
      [] name = "get_user_by_id" -> getUserById(args.user_id)
      [] name = "get_user_tweets" -> getUserTweets(args.username, args.count)
      [] name = "search_tweets" -> searchTweets(args.query, args.count, args.result_type)
      [] name = "get_tweet_by_id" -> getTweetById(args.tweet_id)
      [] name = "get_tweet_replies" -> getTweetReplies(args.tweet_id, args.count)
      [] name = "get_user_followers" -> getUserFollowers(args.username, args.count)
      [] name = "get_user_following" -> getUserFollowing(args.username, args.count)
      [] name = "search_users" -> searchUsers(args.query, args.count)
      [] name = "login_user" -> loginUser(args.username, args.password)
      [] name = "create_tweet" -> createTweet(args.text, args.reply_to)
      [] OTHER -> UnknownTool(name)

DispatchNameFirst(name, args) ==
    IF name \notin ToolNames THEN UnknownTool(name)
    ELSE IF args = NoArgs THEN Throw(McpError("InvalidParams", <<"Missing arguments">>))
    ELSE Switch(name, args)

\* the try block of the CallTool handler: the check of `args`, then the switch
Dispatch(name, args) ==
    IF args = NoArgs THEN Throw(McpError("InvalidParams", <<"Missing arguments">>))
    ELSE Switch(name, args)

----------------------------------------------------------------------------
(* What the upstream API can answer, and the code that runs when it does *)

NullBody == [null |-> TRUE]
Body(cookie) == [null |-> FALSE, cookie |-> cookie]

\* a 2xx response, a non-2xx response, an axios error without a response
\* (network failure, timeout), or an error that is not an axios error
Ok(body) == [kind |-> "ok", status |-> 200, bodyError |-> Undefined, message |-> "", body |-> body]
Http(status, bodyError) ==
    [kind |-> "http", status |-> status, bodyError |-> bodyError,
     message |-> "Request failed", body |-> NullBody]
Network(message) ==
    [kind |-> "network", status |-> 0, bodyError |-> Undefined, message |-> message, body |-> NullBody]
Other(message) ==
    [kind |-> "other", status |-> 0, bodyError |-> Undefined, message |-> message, body |-> NullBody]

Return(data) == [tag |-> "return", data |-> data, err |-> NoError]
Raise(err) == [tag |-> "throw", data |-> NullBody, err |-> err]

\* `error.response?.status || 500`
StatusOr500(status) == IF status = 0 THEN 500 ELSE status

RequestSettledNoStatus(outcome) ==
    CASE outcome.kind = "ok" -> Return(outcome.body)
      [] outcome.kind \in {"http", "network"} ->
            Raise(Error(<<"TwitterAPI.io API error: ",
                          IF Truthy(outcome.bodyError) THEN outcome.bodyError ELSE outcome.message>>))
      [] OTHER -> Raise(Error(<<outcome.message>>))

\* the part of makeRequest / makePostRequest after the await, with its catch
RequestSettled(outcome) ==
    CASE outcome.kind = "ok" -> Return(outcome.body)
      [] outcome.kind \in {"http", "network"} ->
            Raise(Error(<<"TwitterAPI.io API error (", ToString(StatusOr500(outcome.status)), "): ",
                          IF Truthy(outcome.bodyError) THEN outcome.bodyError ELSE outcome.message>>))
      [] OTHER -> Raise(Error(<<outcome.message>>))

NoPayload == [type |-> "none"]
Envelope(payload) == [kind |-> "envelope", code |-> "none", message |-> << >>, payload |-> payload]
Failure(err) == [kind |-> "failure", code |-> err.code, message |-> err.message, payload |-> NoPayload]
NoResult == [kind |-> "none", code |-> "none", message |-> << >>, payload |-> NoPayload]

\* JSON.stringify(data, null, 2) of the upstream body
JsonText(data) == [type |-> "json", data |-> data]

LoginPayload(success, text) == [type |-> "login", success |-> success, text |-> text]

LoginNullBody ==
    Envelope(LoginPayload(FALSE, <<"Cannot read properties of null (reading 'cookie')">>))

loginUserSettledKeepFirst(cookie, settled) ==
    IF settled.tag = "throw"
    THEN [cookie |-> cookie, answer |-> Envelope(LoginPayload(FALSE, settled.err.message))]
    ELSE IF settled.data = NullBody
    THEN [cookie |-> cookie, answer |-> LoginNullBody]
    ELSE [cookie |-> IF Truthy(settled.data.cookie) /\ ~Truthy(cookie)
                     THEN settled.data.cookie ELSE cookie,
          answer |-> Envelope(LoginPayload(TRUE, <<"Login successful">>))]

loginUserSettledRethrow(cookie, settled) ==
    IF settled.tag = "throw"
    THEN [cookie |-> cookie, answer |-> Failure(HandlerCatch(settled.err))]
    ELSE IF settled.data = NullBody
    THEN [cookie |-> cookie, answer |-> LoginNullBody]
    ELSE [cookie |-> IF Truthy(settled.data.cookie) THEN settled.data.cookie ELSE cookie,
          answer |-> Envelope(LoginPayload(TRUE, <<"Login successful">>))]

loginUserSettledLogout(cookie, settled) ==
    IF settled.tag = "throw"
    THEN [cookie |-> Null, answer |-> Envelope(LoginPayload(FALSE, settled.err.message))]
    ELSE IF settled.data = NullBody
    THEN [cookie |-> cookie, answer |-> LoginNullBody]
    ELSE [cookie |-> IF Truthy(settled.data.cookie) THEN settled.data.cookie ELSE cookie,
          answer |-> Envelope(LoginPayload(TRUE, <<"Login successful">>))]

\* loginUser after its await: the new value of loginCookie and the answer
loginUserSettled(cookie, settled) ==
    IF settled.tag = "throw"
    THEN [cookie |-> cookie, answer |-> Envelope(LoginPayload(FALSE, settled.err.message))]
    ELSE IF settled.data = NullBody
    THEN [cookie |-> cookie, answer |-> LoginNullBody]
    ELSE [cookie |-> IF Truthy(settled.data.cookie) THEN settled.data.cookie ELSE cookie,
          answer |-> Envelope(LoginPayload(TRUE, <<"Login successful">>))]

\* every other operation after its await, and the handler's catch
toolSettled(settled) ==
    IF settled.tag = "throw"
    THEN Failure(HandlerCatch(settled.err))
    ELSE Envelope(JsonText(settled.data))

----------------------------------------------------------------------------
(* Inputs *)

UnknownNames == {"delete_tweet"}
Names == ToolNames \cup UnknownNames

\* process.env.TWITTERAPI_API_KEY as configured at start
ApiKeys == {"key"}

Counts == {-1, 0, 50, 51, 100, 101}
Cookies == {"c1", "c2"}
Statuses == {401}

FieldsOf(name) ==
    IF name \in ToolNames
    THEN Descriptor(name).required \cup Descriptor(name).optional
    ELSE {"tweet_id"}

Opt(fields, field, value) == IF field \in fields THEN {Undefined, value} ELSE {Undefined}

ArgBags(name) ==
    LET fields == FieldsOf(name) IN
    [username : Opt(fields, "username", "alice"),
     user_id : Opt(fields, "user_id", "42"),
     query : Opt(fields, "query", "cats"),
     count : IF "count" \in fields
             THEN {NoCount} \cup {<<c>> : c \in Counts} ELSE {NoCount},
     result_type : Opt(fields, "result_type", "popular"),
     tweet_id : Opt(fields, "tweet_id", "t1"),
     password : Opt(fields, "password", "pw"),
     text : Opt(fields, "text", "hello"),
     reply_to : Opt(fields, "reply_to", "t0")]

Outcomes ==
    {Ok(NullBody)} \cup {Ok(Body(c)) : c \in Cookies \cup {Undefined, ""}}
    \cup {Http(st, be) : st \in Statuses, be \in {Undefined, "Unauthorized"}}
    \cup {Network("timeout of 30000ms exceeded"), Other("Invalid URL")}

----------------------------------------------------------------------------
(* The state machine *)

NoOutcome == [kind |-> "none"]

Init ==
    /\ loginCookie = Null
    /\ apiKey \in ApiKeys
    /\ pending = EmptyBag
    /\ upstreamCalls = 0
    /\ granted = Null
    /\ event = [type |-> "start", name |-> "", args |-> NoArgs, outcome |-> NoOutcome]
    /\ wire = NoRequest
    /\ result = NoResult

\* tools/list
ListTools ==
    /\ event' = [type |-> "list", name |-> "", args |-> NoArgs, outcome |-> NoOutcome]
    /\ result' = Envelope([type |-> "tools", tools |-> Catalog])
    /\ wire' = NoRequest
    /\ UNCHANGED <<loginCookie, apiKey, pending, upstreamCalls, granted>>

\* tools/call, from the arrival of the request to the first await or throw
CallTool(name, args) ==
    LET d == Dispatch(name, args) IN
    /\ d.tag = "await" => BagCardinality(pending) < MaxInFlight /\ upstreamCalls < MaxCalls
    /\ event' = [type |-> "call", name |-> name, args |-> args, outcome |-> NoOutcome]
    /\ IF d.tag = "await"
       THEN /\ pending' = pending (+) SetToBag({name})
            /\ upstreamCalls' = upstreamCalls + 1
            /\ wire' = d.req
            /\ result' = NoResult
       ELSE /\ result' = Failure(HandlerCatch(d.err))
            /\ wire' = NoRequest
            /\ UNCHANGED <<pending, upstreamCalls>>
    /\ UNCHANGED <<loginCookie, apiKey, granted>>

\* the response of upstream carried a cookie value
CarriesCookie(outcome) ==
    /\ outcome.kind = "ok"
    /\ outcome.body # NullBody
    /\ outcome.body.cookie \notin {Undefined, ""}

SettleWithRelogin(name, outcome) ==
    LET settled == RequestSettled(outcome)
        login == loginUserSettled(loginCookie, settled)
    IN
    /\ event' = [type |-> "settle", name |-> name, args |-> NoArgs, outcome |-> outcome]
    /\ IF name = "create_tweet" /\ settled.tag = "throw"
       THEN /\ pending' = (pending (-) SetToBag({name})) (+) SetToBag({"login_user"})
            /\ upstreamCalls' = upstreamCalls + 1
            /\ wire' = makePostRequest("/user_login_v2",
                            [userName |-> Undefined, password |-> Undefined])
            /\ result' = NoResult
            /\ UNCHANGED <<loginCookie, granted>>
       ELSE /\ pending' = pending (-) SetToBag({name})
            /\ wire' = NoRequest
            /\ upstreamCalls' = upstreamCalls
            /\ IF name = "login_user"
               THEN /\ loginCookie' = login.cookie
                    /\ result' = login.answer
                    /\ granted' = IF CarriesCookie(outcome) THEN outcome.body.cookie ELSE granted
               ELSE /\ result' = toolSettled(settled)
                    /\ UNCHANGED <<loginCookie, granted>>
    /\ UNCHANGED apiKey

\* the upstream call of a suspended invocation of tool `name` settles
Settle(name, outcome) ==
    LET settled == RequestSettled(outcome)
        login == loginUserSettled(loginCookie, settled)
    IN
    /\ event' = [type |-> "settle", name |-> name, args |-> NoArgs, outcome |-> outcome]
    /\ pending' = pending (-) SetToBag({name})
    /\ wire' = NoRequest
    /\ IF name = "login_user"
       THEN /\ loginCookie' = login.cookie
            /\ result' = login.answer
            /\ granted' = IF CarriesCookie(outcome) THEN outcome.body.cookie ELSE granted
       ELSE /\ result' = toolSettled(settled)
            /\ UNCHANGED <<loginCookie, granted>>
    /\ UNCHANGED <<apiKey, upstreamCalls>>

Next ==
    \/ ListTools
    \/ \E name \in Names : \E args \in ArgBags(name) \cup {NoArgs} : CallTool(name, args)
    \/ \E name \in BagToSet(pending) : \E outcome \in Outcomes : Settle(name, outcome)

Spec == Init /\ [][Next]_vars

----------------------------------------------------------------------------
(* Reading the latest step *)

Elems(seq) == {seq[i] : i \in DOMAIN seq}

\* the latest step was the arrival of a tools/call for `name` with an argument bag
Called(name) == event.type = "call" /\ event.name = name /\ event.args # NoArgs

\* the next step is the arrival of a tools/call for `name` with an argument bag
CalledNext(name) == event'.type = "call" /\ event'.name = name /\ event'.args # NoArgs

\* the latest step was the settling of the upstream call of an invocation of `name`
Settled(name) == event.type = "settle" /\ event.name = name

UpstreamFailed == event.type = "settle" /\ event.outcome.kind # "ok"

----------------------------------------------------------------------------
(* C1 *)

\* C1: while no session cookie is held, an invocation of create_tweet with an
\* argument bag is answered with a failure, hands no request to the HTTP client
\* and leaves the count of upstream calls as it was.
C1_CreateTweetNeedsLogin ==
    [][ (~Truthy(loginCookie) /\ CalledNext("create_tweet"))
        => (/\ result'.kind = "failure"
            /\ wire' = NoRequest
            /\ upstreamCalls' = upstreamCalls
            /\ pending' = pending) ]_vars

\* create_tweet was refused after an earlier (failed or cookie-less) login
W1_RefusedAfterFailedLogin ==
    /\ Called("create_tweet")
    /\ ~Truthy(loginCookie)
    /\ upstreamCalls > 0
    /\ result.kind = "failure"

----------------------------------------------------------------------------
(* C2 *)

\* C2: every upstream request, GET or POST, carries as its Cookie header the
\* cookie of the most recent settled login whose response carried one, when a
\* cookie is held, and no Cookie header when none is held; the cookie held is
\* always the one of the most recent such login.
C2_CookieHeader ==
    /\ Truthy(loginCookie) => loginCookie = granted
    /\ wire # NoRequest =>
          IF Truthy(loginCookie)
          THEN wire.headers.Cookie = granted
          ELSE wire.headers.Cookie = Absent

\* a create_tweet request went out with the cookie of the login before it
W2_TweetCarriesCookie ==
    /\ Called("create_tweet")
    /\ wire # NoRequest
    /\ wire.method = "POST"
    /\ wire.headers.Cookie \in Cookies
    /\ wire.headers.Cookie = granted

----------------------------------------------------------------------------
(* C3 *)

\* C3: an invocation of login_user with an argument bag is never answered with
\* a failure; when its upstream request fails (non-2xx, network failure,
\* timeout, any other error) the answer is an envelope whose payload has
\* success false and a non-empty error text.
C3_LoginFailureIsEnvelope ==
    /\ Called("login_user") => result.kind # "failure"
    /\ (Settled("login_user") /\ UpstreamFailed) =>
          /\ result.kind = "envelope"
          /\ result.payload.type = "login"
          /\ result.payload.success = FALSE
          /\ result.payload.text # << >>

\* a login was rejected upstream with an HTTP status and answered in an envelope
W3_RejectedLogin ==
    /\ Settled("login_user")
    /\ event.outcome.kind = "http"
    /\ result.kind = "envelope"
    /\ result.payload.success = FALSE

----------------------------------------------------------------------------
(* C4 *)

\* C4: the session starts without a cookie; once a cookie is held one is held
\* ever after; and the cookie changes only when a login_user settles with a
\* response that carries a cookie, to that cookie.
C4_SessionLifecycle ==
    /\ loginCookie = Null
    /\ [][ /\ Truthy(loginCookie) => Truthy(loginCookie')
           /\ loginCookie' # loginCookie =>
                 /\ event'.type = "settle"
                 /\ event'.name = "login_user"
                 /\ CarriesCookie(event'.outcome)
                 /\ loginCookie' = event'.outcome.body.cookie ]_vars

\* a login failed, or came back without a cookie, while a cookie was held
W4_FailedLoginKeepsCookie ==
    /\ Settled("login_user")
    /\ ~CarriesCookie(event.outcome)
    /\ Truthy(loginCookie)

----------------------------------------------------------------------------
(* C5 *)

MissingRequired ==
    /\ event.type = "call"
    /\ event.args # NoArgs
    /\ event.name \in ToolNames
    /\ \E f \in Descriptor(event.name).required : event.args[f] = Undefined

\* C5: an invocation of a registered operation whose argument bag lacks one of
\* the operation's required fields is answered InvalidParams and issues no
\* upstream request.
C5_MissingRequiredIsInvalidParams ==
    MissingRequired =>
        /\ result.kind = "failure"
        /\ result.code = "InvalidParams"
        /\ wire = NoRequest

----------------------------------------------------------------------------
(* C6 *)

CountBearing ==
    {"get_user_tweets", "search_tweets", "get_tweet_replies",
     "get_user_followers", "get_user_following", "search_users"}

StatedMaximum(name) == IF name = "search_users" THEN 50 ELSE 100

StatedDefault(name) ==
    IF name \in {"get_user_followers", "get_user_following"} THEN 20 ELSE 10

\* C6: an invocation of a count-bearing operation is never refused for its
\* count, and the count it forwards is the operation's maximum when the count
\* given exceeds it, the count given when it does not, and the operation's
\* default (20 for followers and following, 10 otherwise) when none is given.
C6_CountClamped ==
    \A name \in CountBearing :
        Called(name) =>
            /\ result.kind # "failure"
            /\ wire # NoRequest
            /\ wire.params.count =
                  IF event.args.count = NoCount THEN StatedDefault(name)
                  ELSE IF event.args.count[1] > StatedMaximum(name) THEN StatedMaximum(name)
                  ELSE event.args.count[1]

\* search_users was called with a count between its maximum and the others'
W6_SearchUsersCapped ==
    /\ Called("search_users")
    /\ event.args.count = <<51>>
    /\ wire # NoRequest
    /\ wire.params.count = 50

----------------------------------------------------------------------------
(* C7 *)

\* C7: an invocation, with an argument bag, of a name that is not in the
\* catalog is answered MethodNotFound with the name in the message, issues no
\* upstream request and leaves the session as it was.
C7_UnknownToolIsMethodNotFound ==
    [][ (event'.type = "call" /\ event'.args # NoArgs /\ event'.name \notin ToolNames)
        => (/\ result'.kind = "failure"
            /\ result'.code = "MethodNotFound"
            /\ event'.name \in Elems(result'.message)
            /\ wire' = NoRequest
            /\ upstreamCalls' = upstreamCalls
            /\ pending' = pending
            /\ loginCookie' = loginCookie
            /\ apiKey' = apiKey) ]_vars

\* an unknown name was refused while a session was held and a call in flight
W7_UnknownToolRefused ==
    /\ event.type = "call"
    /\ event.name \in UnknownNames
    /\ event.args # NoArgs
    /\ result.code = "MethodNotFound"
    /\ Truthy(loginCookie)
    /\ pending # EmptyBag

----------------------------------------------------------------------------
(* C8 *)

\* C8: an invocation without an argument bag is answered InvalidParams and
\* issues no upstream request, whatever the name: an unknown name without a
\* bag is answered InvalidParams, not MethodNotFound.
C8_MissingBagIsInvalidParams ==
    [][ (event'.type = "call" /\ event'.args = NoArgs)
        => (/\ result'.kind = "failure"
            /\ result'.code = "InvalidParams"
            /\ wire' = NoRequest
            /\ upstreamCalls' = upstreamCalls
            /\ pending' = pending) ]_vars

\* an unknown name without a bag was answered InvalidParams
W8_UnknownNameWithoutBag ==
    /\ event.type = "call"
    /\ event.name \in UnknownNames
    /\ event.args = NoArgs
    /\ result.kind = "failure"
    /\ result.code = "InvalidParams"

----------------------------------------------------------------------------
(* C9 *)

\* C9: for every operation but login_user a failed upstream call is answered
\* with a failure of code InternalError whose message carries the HTTP status
\* when the upstream answered with one; and a failure raised when a call
\* arrives keeps its own code: InvalidParams for a missing bag, MethodNotFound
\* for an unknown name.
C9_UpstreamFailureIsInternalError ==
    /\ (UpstreamFailed /\ event.name # "login_user") =>
          /\ result.kind = "failure"
          /\ result.code = "InternalError"
          /\ event.outcome.kind = "http" =>
                ToString(event.outcome.status) \in Elems(result.message)
    /\ (event.type = "call" /\ event.args = NoArgs) => result.code = "InvalidParams"
    /\ (event.type = "call" /\ event.args # NoArgs /\ event.name \notin ToolNames) =>
          result.code = "MethodNotFound"

\* a read operation was rejected upstream with a status and answered InternalError
W9_ReadRejected ==
    /\ UpstreamFailed
    /\ event.name = "search_tweets"
    /\ event.outcome.kind = "http"
    /\ result.code = "InternalError"
    /\ "401" \in Elems(result.message)

----------------------------------------------------------------------------
(* C10 *)

\* the codes with which a failed upstream call is answered
UpstreamFailureCodes ==
    {toolSettled(RequestSettled(o)).code : o \in {x \in Outcomes : x.kind # "ok"}}

\* C10: a create_tweet refused because no session is held is answered with a
\* code that no failed upstream call is answered with.
C10_PreconditionHasOwnCode ==
    (Called("create_tweet") /\ ~Truthy(loginCookie) /\ result.kind = "failure")
        => result.code \notin UpstreamFailureCodes

----------------------------------------------------------------------------
(* C11 *)

\* the names a tools/list answer lists
ListedNames(answer) == {answer.payload.tools[i].name : i \in DOMAIN answer.payload.tools}

\* C11: tools/list answers, in every state, the same catalog of 11 descriptors
\* with 11 different names, issues no upstream request and leaves the session
\* and the suspended invocations as they were; and a name invoked with an
\* argument bag is answered MethodNotFound exactly when tools/list does not
\* list it.
C11_CatalogFixedAndDispatched ==
    [][ /\ event'.type = "list" =>
             /\ result'.kind = "envelope"
             /\ result'.payload.tools = Catalog
             /\ Len(result'.payload.tools) = 11
             /\ Cardinality(ListedNames(result')) = 11
             /\ wire' = NoRequest
             /\ upstreamCalls' = upstreamCalls
             /\ pending' = pending
             /\ loginCookie' = loginCookie
             /\ apiKey' = apiKey
        /\ (event'.type = "call" /\ event'.args # NoArgs) =>
             (result'.code = "MethodNotFound"
                <=> event'.name \notin ListedNames(Envelope([type |-> "tools", tools |-> Catalog]))) ]_vars

\* the catalog was listed while a session was held and a call was in flight
W11_ListedWhileBusy ==
    /\ event.type = "list"
    /\ Len(result.payload.tools) = 11
    /\ Truthy(loginCookie)
    /\ pending # EmptyBag

----------------------------------------------------------------------------
(* C12 *)

ReadOperations ==
    {"get_user_by_username", "get_user_by_id", "get_user_tweets", "search_tweets",
     "get_tweet_by_id", "get_tweet_replies", "get_user_followers",
     "get_user_following", "search_users"}

WriteOperations == {"login_user", "create_tweet"}

StatedPath(name) ==
    CASE name = "get_user_by_username" -> "/user/info"
      [] name = "get_user_by_id" -> "/user/info"
      [] name = "get_user_tweets" -> "/user/last_tweets"
      [] name = "search_tweets" -> "/tweet/advanced_search"
      [] name = "get_tweet_by_id" -> "/tweets"
      [] name = "get_tweet_replies" -> "/tweet/replies"
      [] name = "get_user_followers" -> "/user/followers"
      [] name = "get_user_following" -> "/user/followings"
      [] name = "search_users" -> "/user/search"
      [] name = "login_user" -> "/user_login_v2"
      [] name = "create_tweet" -> "/create_tweet_v2"
      [] OTHER -> "<no path>"

\* the request carries `value` under the upstream name `key`
Forwards(bag, key, value) == key \in DOMAIN bag /\ bag[key] = value

\* C12: a request that an invocation issues has the method and the path of
\* the upstream table: a read operation issues a GET to its path with the
\* arguments as query parameters under the upstream names (username as
\* userName, the tweet_id of get_tweet_replies as id); login_user and
\* create_tweet issue a POST to their paths with the arguments in the body.
C12_UpstreamTable ==
    (event.type = "call" /\ wire # NoRequest) =>
        LET name == event.name
            args == event.args
        IN
        /\ name \in ReadOperations \cup WriteOperations
        /\ wire.path = StatedPath(name)
        /\ name \in ReadOperations =>
              /\ wire.method = "GET"
              /\ "params" \in DOMAIN wire
              /\ "data" \notin DOMAIN wire
              /\ name \in {"get_user_by_username", "get_user_tweets",
                            "get_user_followers", "get_user_following"} =>
                    Forwards(wire.params, "userName", args.username)
              /\ name = "get_user_by_id" => Forwards(wire.params, "user_id", args.user_id)
              /\ name \in {"search_tweets", "search_users"} =>
                    Forwards(wire.params, "query", args.query)
              /\ name = "get_tweet_by_id" => Forwards(wire.params, "tweet_id", args.tweet_id)
              /\ name = "get_tweet_replies" => Forwards(wire.params, "id", args.tweet_id)
        /\ name \in WriteOperations =>
              /\ wire.method = "POST"
              /\ "data" \in DOMAIN wire
              /\ "params" \notin DOMAIN wire
              /\ name = "login_user" =>
                    /\ Forwards(wire.data, "userName", args.username)
                    /\ Forwards(wire.data, "password", args.password)
              /\ name = "create_tweet" => Forwards(wire.data, "text", args.text)

\* get_tweet_replies forwarded its tweet_id as id
W12_RepliesForwardId ==
    /\ Called("get_tweet_replies")
    /\ wire # NoRequest
    /\ wire.method = "GET"
    /\ wire.path = "/tweet/replies"
    /\ wire.params.id = "t1"

----------------------------------------------------------------------------
(* C13 *)

\* C13 as stated: at every moment at most one upstream call is in flight.
C13_AtMostOneInFlight == BagCardinality(pending) <= 1

\* C13 as amended: invocations are not serialised, but each step is atomic.
\* An invocation that issues a request becomes the one more suspended
\* invocation, with the one more upstream call, and its request carries the
\* cookie held at that moment, which the step does not change; a settling
\* step takes one suspended invocation away and issues nothing; so the
\* suspended invocations never outnumber the upstream calls issued.
C13_StepsAtomicNotSerialised ==
    /\ []( BagCardinality(pending) <= upstreamCalls )
    /\ [][ /\ (event'.type = "call" /\ wire' # NoRequest) =>
                 /\ pending' = pending (+) SetToBag({event'.name})
                 /\ upstreamCalls' = upstreamCalls + 1
                 /\ wire'.headers.Cookie = IF Truthy(loginCookie) THEN loginCookie ELSE Absent
                 /\ loginCookie' = loginCookie
           /\ event'.type = "settle" =>
                 /\ BagIn(event'.name, pending)
                 /\ pending' = pending (-) SetToBag({event'.name})
                 /\ wire' = NoRequest ]_vars

\* create_tweet read the cookie and went upstream while a login was in flight
W13_TweetDuringLogin ==
    /\ Called("create_tweet")
    /\ wire # NoRequest
    /\ BagIn("login_user", pending)
    /\ BagCardinality(pending) = 2

----------------------------------------------------------------------------
(* C14 *)

\* C14: an invocation lives for the step in which it arrives and, if it
\* issued a request there, the step in which that request settles.  The first
\* issues at most one request; the second issues none, whatever the outcome,
\* answers the caller and suspends nothing again; in particular a failed
\* create_tweet leaves the number of logins in flight as it was.
C14_NoRetryNoRelogin ==
    [][ /\ event'.type = "call" =>
             /\ upstreamCalls' = upstreamCalls + (IF wire' = NoRequest THEN 0 ELSE 1)
             /\ BagCardinality(pending') = BagCardinality(pending) + (IF wire' = NoRequest THEN 0 ELSE 1)
             /\ wire' = NoRequest <=> result'.kind = "failure"
        /\ event'.type = "settle" =>
             /\ upstreamCalls' = upstreamCalls
             /\ wire' = NoRequest
             /\ result'.kind \in {"envelope", "failure"}
             /\ BagCardinality(pending') = BagCardinality(pending) - 1
             /\ event'.name = "create_tweet" =>
                   CopiesIn("login_user", pending') = CopiesIn("login_user", pending) ]_vars

\* a create_tweet failed upstream and was answered with no further call
W14_TweetFailedOnce ==
    /\ Settled("create_tweet")
    /\ UpstreamFailed
    /\ result.kind = "failure"
    /\ wire = NoRequest
    /\ upstreamCalls = 2
    /\ pending = EmptyBag

----------------------------------------------------------------------------
(* C15 *)

\* the answer is a failure, or the envelope of a login that did not succeed
FailedAnswer(answer) ==
    \/ answer.kind = "failure"
    \/ /\ answer.kind = "envelope"
       /\ answer.payload.type = "login"
       /\ answer.payload.success = FALSE

\* the bounds of the model leave room for one more upstream call
RoomForCall == BagCardinality(pending) < MaxInFlight /\ upstreamCalls < MaxCalls

\* C15: a step that answers with a failure, or with the envelope of a failed
\* login, leaves the session cookie and the API key as they were; and in
\* the state such a step leads to the dispatcher takes every invocation: one
\* without an argument bag always, any other whenever the bounds of the
\* model leave room for its upstream call.
C15_FailureIsLocal ==
    /\ [][ FailedAnswer(result') => (loginCookie' = loginCookie /\ apiKey' = apiKey) ]_vars
    /\ []( FailedAnswer(result) =>
              \A name \in Names :
                  /\ ENABLED CallTool(name, NoArgs)
                  /\ RoomForCall => \A args \in ArgBags(name) : ENABLED CallTool(name, args) )

\* a read operation failed upstream while a session was held
W15_ReadFailedInSession ==
    /\ Settled("get_user_by_id")
    /\ UpstreamFailed
    /\ result.kind = "failure"
    /\ Truthy(loginCookie)
    /\ upstreamCalls < MaxCalls

----------------------------------------------------------------------------
(* C16 *)

\* C16: when a login_user is answered with success true, a session cookie is
\* held afterwards, so that a create_tweet arriving next passes the guard.
C16_SuccessMeansSession ==
    (/\ Settled("login_user")
     /\ result.kind = "envelope"
     /\ result.payload.type = "login"
     /\ result.payload.success = TRUE)
        => /\ Truthy(loginCookie)
           /\ \A args \in ArgBags("create_tweet") : createTweet(args.text, args.reply_to).tag = "await"

----------------------------------------------------------------------------
(* C17 *)

\* C17: the count that a count-bearing operation forwards for a count given
\* by the caller lies between the minimum (1) and the maximum that the
\* operation's descriptor declares.
C17_CountWithinDeclaredBounds ==
    \A name \in CountBearing :
        (Called(name) /\ event.args.count # NoCount /\ wire # NoRequest) =>
            /\ Descriptor(name).minimum = 1
            /\ wire.params.count >= Descriptor(name).minimum
            /\ wire.params.count <= Descriptor(name).maximum

====
